---- MODULE Spec2Model ----
(***************************************************************************)
(* A model of ping-watchdog.py: one invocation of main() is one decision   *)
(* cycle (log setup and rotation, the ping retry loop, the 24h reboot      *)
(* history scan, notification and the reboot command).  The log file is    *)
(* the only state that survives from one invocation to the next.           *)
(*                                                                         *)
(* Time is counted in ticks, TicksPerSec ticks to the second.  A log line  *)
(* is a sequence of tokens (a date to the second, ',', the sub-second      *)
(* digits, ' ', '|', a message text, the newline), so that str.split and   *)
(* strptime are computed on the line and not assumed.                      *)
(***************************************************************************)
EXTENDS Integers, Sequences, FiniteSets, TLC

VARIABLES
    cfg,        \* the values read from the configuration file, and the platform
    log,        \* the lines of the logger's file (MyLog.log_file)
    log0,       \* the logger's file as the current invocation found it
    now,        \* the wall clock, in ticks
    pc,         \* the position of the running invocation
    count,      \* ping_host's loop counter
    reboots,    \* notify_and_reboot's local: the result of num_reboots_24h
    ev,         \* what the current invocation has done so far, in order
    rebootLog,  \* the clock at every call of the reboot command, all cycles
    cycle       \* the number of invocations started

vars == <<cfg, log, log0, now, pc, count, reboots, ev, rebootLog, cycle>>

----------------------------------------------------------------------------
(* Bounds of the model *)

\* sub-second resolution of the clock (asctime carries milliseconds)
TicksPerSec == 2
\* the largest configured ping attempts
MaxAttempts == 1
\* the largest configured ping retries
MaxRetries == 2
\* the largest configured max_reboots_per_day
MaxCap == 2
\* the number of invocations followed
MaxCycles == 2
\* log_max_size of main(), scaled down from 2 MiB to a size one cycle can reach
LogMaxSize == 78
\* the number of lines of a log handed to the history scan on its own
MaxLines == 3
\* the largest attempts setting of a probe round followed probe by probe
MaxProbeAttempts == 3

----------------------------------------------------------------------------
(* Tokens and log lines *)

Tok(k, n) == [k |-> k, n |-> n]

SP == Tok("sp", 0)
BAR == Tok("|", 0)
COMMA == Tok(",", 0)
DOT == Tok(".", 0)
NL == Tok("nl", 0)

\* MyLog.log_msg, the text that marks a requested reboot
log_msg == Tok("(ping-watchdog) ping failed. requesting reboot", 0)
MsgNoReboot == Tok("no reboot required", 0)
MsgCanceled == Tok("reboot canceled. max reboots allowed in 24h reached", 0)
MsgFailed == Tok("reboot command failed", 0)
MsgNoPing == Tok("ping command not found", 0)

\* the length in bytes of a token's text
TokLen(t) ==
    CASE t.k = "date" -> 19
      [] t.k = "ms" -> 3
      [] t = log_msg -> 46
      [] t = MsgNoReboot -> 18
      [] t = MsgCanceled -> 51
      [] t = MsgFailed -> 21
      [] t = MsgNoPing -> 22
      [] OTHER -> 1

RECURSIVE SeqSum(_)
SeqSum(s) == IF s = <<>> THEN 0 ELSE s[1] + SeqSum(Tail(s))

LineLen(line) == SeqSum([i \in DOMAIN line |-> TokLen(line[i])])

\* os.path.getsize of a file holding these lines
getsize(lines) == SeqSum([i \in DOMAIN lines |-> LineLen(lines[i])])

\* logging.Formatter('%(asctime)s | %(message)s') at clock t
FormatLine(t, msg) ==
    << Tok("date", t \div TicksPerSec), COMMA, Tok("ms", t % TicksPerSec),
       SP, BAR, SP, msg, NL >>

----------------------------------------------------------------------------
(* str.split, str.find and datetime.strptime on token sequences *)

\* the index of the first d in s, 0 when there is none
RECURSIVE FirstIndex(_, _, _)
FirstIndex(s, d, i) ==
    IF i > Len(s) THEN 0
    ELSE IF s[i] = d THEN i
    ELSE FirstIndex(s, d, i + 1)

\* s.split(d): the pieces of s between the occurrences of d
RECURSIVE Split(_, _)
Split(s, d) ==
    LET i == FirstIndex(s, d, 1)
    IN  IF i = 0 THEN << s >>
        ELSE << SubSeq(s, 1, i - 1) >> \o Split(SubSeq(s, i + 1, Len(s)), d)

\* rest.find(MyLog.log_msg) != -1
Finds(rest, msg) == FirstIndex(rest, msg, 1) # 0

\* datetime.strptime(dt, '%Y-%m-%d %H:%M:%S'): the text must be a date to the
\* second and nothing else; the result is the clock value, "ValueError" otherwise
strptime(dt) ==
    IF Len(dt) = 1 /\ dt[1].k = "date"
    THEN [ok |-> TRUE, t |-> dt[1].n * TicksPerSec]
    ELSE [ok |-> FALSE, t |-> 0]

\* timedelta(hours=h) in ticks
timedelta_hours(h) == h * 60 * 60 * TicksPerSec

----------------------------------------------------------------------------
(* num_reboots_24h *)

\* The body of the try block for one line, given parts = line.split('|'):
\* what it appends to dt_lst, and whether it raised.
ScanParts(parts) ==
    IF Len(parts) # 2
    THEN [raised |-> TRUE, dts |-> <<>>]           \* dt, rest = ... : ValueError
    ELSE LET dt0 == parts[1]
             rest == parts[2]
         IN  IF ~Finds(rest, log_msg)
             THEN [raised |-> FALSE, dts |-> <<>>]
             ELSE LET dt1 == Split(dt0, COMMA)[1]
                      dt2 == Split(dt1, DOT)[1]
                      p == strptime(dt2)
                  IN  IF p.ok
                      THEN [raised |-> FALSE, dts |-> << p.t >>]
                      ELSE [raised |-> TRUE, dts |-> <<>>]

\* (the split is taken once, as a value, before the body is computed on it)
ScanLineBody(line) ==
    CHOOSE r \in {ScanParts(parts) : parts \in {Split(line, BAR)}} : TRUE

\* try: ... except Exception: continue
ScanLine_NoExcept(line) == ScanLineBody(line)

ScanLine(line) ==
    LET r == ScanLineBody(line)
    IN  [raised |-> FALSE, dts |-> r.dts]

\* the loop over the lines: dt_lst, and whether an exception left the loop
RECURSIVE ScanLines(_)
ScanLines(lines) ==
    IF lines = <<>> THEN [raised |-> FALSE, dts |-> <<>>]
    ELSE LET r == ScanLine(lines[1])
         IN  IF r.raised THEN [raised |-> TRUE, dts |-> <<>>]
             ELSE LET q == ScanLines(Tail(lines))
                  IN  [raised |-> q.raised, dts |-> r.dts \o q.dts]

\* log_date > yesterday
InWindow_Inclusive(log_date, yesterday) == log_date >= yesterday

InWindow(log_date, yesterday) == log_date > yesterday

RECURSIVE CountInWindow(_, _)
CountInWindow(dts, yesterday) ==
    IF dts = <<>> THEN 0
    ELSE (IF InWindow(dts[1], yesterday) THEN 1 ELSE 0)
         + CountInWindow(Tail(dts), yesterday)

\* the result of num_reboots_24h on a file of these lines read at clock t
num_reboots_24h(lines, t) ==
    LET s == ScanLines(lines)
        yesterday == t - timedelta_hours(24)
    IN  [raised |-> s.raised,
         count |-> IF s.raised THEN 0 ELSE CountInWindow(s.dts, yesterday)]

----------------------------------------------------------------------------
(* MyLog *)

\* MyLog._log_rotate: the file after the call
log_rotate_AtLeast(lines, log_max_size) ==
    IF log_max_size > 0
    THEN IF getsize(lines) >= log_max_size THEN <<>> ELSE lines
    ELSE lines

log_rotate(lines, log_max_size) ==
    IF log_max_size > 0
    THEN IF getsize(lines) > log_max_size THEN <<>> ELSE lines
    ELSE lines

\* logger.fatal(msg): the file handler (level FATAL) appends one line
fatal(lines, t, msg) == Append(lines, FormatLine(t, msg))

----------------------------------------------------------------------------
(* Events of one invocation, kept in ev in the order they happen *)

Ev(e, n) == [e |-> e, n |-> n]

EvRotate == Ev("rotate", 0)          \* MyLog._log_rotate was called
EvWait == Ev("wait", 0)              \* time.sleep(retry_wait)
EvRound(f) == Ev("round", f)         \* ping_attempts returned f
EvScan(n) == Ev("scan", n)           \* num_reboots_24h returned n
EvMarker == Ev("marker", 0)          \* logger.fatal(MyLog.log_msg)
EvSyslog == Ev("syslog", 0)          \* os.system('logger ...')
EvPush(o) == Ev("push", o)           \* Pushover.notify() returned, outcome o
EvReboot(r) == Ev("reboot", r)       \* os.system(reboot command) returned r
EvNoReboot == Ev("no reboot required", 0)
EvCanceled == Ev("reboot canceled", 0)
EvFailed == Ev("reboot command failed", 0)
EvNoPing == Ev("ping command not found", 0)

\* outcomes of Pushover.notify
PushNotConfigured == 0
PushError == 1
PushNon200 == 2
PushSent == 3

Indices(kind) == {i \in DOMAIN ev : ev[i].e = kind}
Num(kind) == Cardinality(Indices(kind))
Has(kind) == Indices(kind) # {}

----------------------------------------------------------------------------
(* ping_attempts and ping_host *)

\* ping_attempts after the is_tool check: results[i] is the status os.system
\* returned for probe i; the loop counts the non-zero ones
RECURSIVE CountFailed(_, _)
CountFailed(results, i) ==
    IF i > Len(results) THEN 0
    ELSE (IF results[i] # 0 THEN 1 ELSE 0) + CountFailed(results, i + 1)

ping_attempts(results) == CountFailed(results, 1)

\* range(0, 2 * attempts): the probes of one round
ProbeRuns(attempts) == [1 .. 2 * attempts -> {0, 1}]

\* failed_attempts <= attempts: the round found the host reachable
RoundOk_Strict(failed_attempts, attempts) == failed_attempts < attempts

RoundOk(failed_attempts, attempts) == failed_attempts <= attempts

\* while count < retries
LoopGuard(c, retries) == c < retries

\* if count > 0: the sleep before a round
NeedsWait_Always(c) == c >= 0

NeedsWait(c) == c > 0

\* reboots >= max_reboots_per_day
Throttled_Above(n, cap) == n > cap

Throttled(n, cap) == n >= cap

----------------------------------------------------------------------------
(* The configuration and the initial state *)

Configs ==
    [ attempts : 1 .. MaxAttempts,
      retries : 0 .. MaxRetries,
      max_reboots_per_day : 0 .. MaxCap,
      log_file : {"logger", "other", "missing"},
      os_name : {"posix", "nt"},     \* os.name, fixed by the platform
      ping_tool : BOOLEAN ]          \* is_tool('ping'): ping is on the PATH
        \* [log] log_file names the logger's file, another (empty) file,
        \* or no file at all

\* the time between the end of one invocation and the start of the next
Gaps == {1, timedelta_hours(24) - 1, timedelta_hours(24)}

Init ==
    /\ cfg \in Configs
    /\ log = <<>>
    /\ log0 = <<>>
    /\ now = timedelta_hours(48)
    /\ pc = "idle"
    /\ count = 0
    /\ reboots = 0
    /\ ev = <<>>
    /\ rebootLog = <<>>
    /\ cycle = 0

----------------------------------------------------------------------------
(* main() *)

\* lines 339-369: MyLog(log_max_size, log_file), with its rotation, and the
\* configuration; then ping_host is entered with count = 0
Start ==
    /\ pc = "idle"
    /\ cycle < MaxCycles
    /\ cycle' = cycle + 1
    /\ log0' = log
    /\ log' = log_rotate(log, LogMaxSize)
    /\ ev' = << EvRotate >>
    /\ count' = 0
    /\ reboots' = 0
    /\ pc' = "ping"
    /\ UNCHANGED <<cfg, now, rebootLog>>

\* one turn of ping_host's loop
PingRound_NoIncrement ==
    /\ pc = "ping"
    /\ LoopGuard(count, cfg.retries)
    /\ LET waited == IF NeedsWait(count) THEN ev \o << EvWait >> ELSE ev
       IN    IF ~cfg.ping_tool
             THEN /\ log' = fatal(log, now, MsgNoPing)
                  /\ ev' = waited \o << EvNoPing >>
                  /\ pc' = "exit1"
             ELSE \E results \in ProbeRuns(cfg.attempts) :
                    LET failed_attempts == ping_attempts(results)
                    IN  /\ ev' = waited \o << EvRound(failed_attempts) >>
                        /\ log' = log
                        /\ IF RoundOk(failed_attempts, cfg.attempts)
                           THEN pc' = "reachable"
                           ELSE pc' = "ping"
    /\ UNCHANGED <<cfg, log0, now, count, reboots, rebootLog, cycle>>

PingRound ==
    /\ pc = "ping"
    /\ LoopGuard(count, cfg.retries)
    /\ LET waited == IF NeedsWait(count) THEN ev \o << EvWait >> ELSE ev
       IN    IF ~cfg.ping_tool
             THEN \* is_tool('ping') is false: logger.fatal, sys.exit(1)
                  /\ log' = fatal(log, now, MsgNoPing)
                  /\ ev' = waited \o << EvNoPing >>
                  /\ pc' = "exit1"
                  /\ UNCHANGED count
             ELSE \E results \in ProbeRuns(cfg.attempts) :
                    LET failed_attempts == ping_attempts(results)
                    IN  /\ ev' = waited \o << EvRound(failed_attempts) >>
                        /\ log' = log
                        /\ IF RoundOk(failed_attempts, cfg.attempts)
                           THEN pc' = "reachable" /\ UNCHANGED count
                           ELSE pc' = "ping" /\ count' = count + 1
    /\ UNCHANGED <<cfg, log0, now, reboots, rebootLog, cycle>>

\* the loop ends without a reachable round: ping_host returns False
PingGiveUp ==
    /\ pc = "ping"
    /\ ~LoopGuard(count, cfg.retries)
    /\ pc' = "unreachable"
    /\ UNCHANGED <<cfg, log0, log, now, count, reboots, ev, rebootLog, cycle>>

\* main, line 372
StandDown_Fallthrough ==
    /\ pc = "reachable"
    /\ log' = fatal(log, now, MsgNoReboot)
    /\ ev' = Append(ev, EvNoReboot)
    /\ pc' = "unreachable"
    /\ UNCHANGED <<cfg, log0, now, count, reboots, rebootLog, cycle>>

StandDown ==
    /\ pc = "reachable"
    /\ log' = fatal(log, now, MsgNoReboot)
    /\ ev' = Append(ev, EvNoReboot)
    /\ pc' = "done"
    /\ UNCHANGED <<cfg, log0, now, count, reboots, rebootLog, cycle>>

\* the file num_reboots_24h opens: cfg.config['log']['log_file']
HistoryFile == IF cfg.log_file = "logger" THEN log ELSE <<>>

\* notify_and_reboot, lines 321-324: the history scan and the throttle
CheckThreshold_Late ==
    /\ pc = "unreachable"
    /\ cfg.log_file # "missing"
    /\ LET after == fatal(log, now, log_msg)
           r == num_reboots_24h(IF cfg.log_file = "logger" THEN after ELSE <<>>, now)
       IN  /\ reboots' = r.count
           /\ IF Throttled(r.count, cfg.max_reboots_per_day)
              THEN /\ log' = fatal(after, now, MsgCanceled)
                   /\ ev' = ev \o << EvMarker, EvScan(r.count), EvCanceled >>
                   /\ pc' = "done"
              ELSE /\ log' = after
                   /\ ev' = ev \o << EvMarker, EvScan(r.count) >>
                             \o (IF cfg.os_name # "nt" THEN << EvSyslog >> ELSE <<>>)
                   /\ pc' = "push"
    /\ UNCHANGED <<cfg, log0, now, count, rebootLog, cycle>>

CheckThreshold_NoElse ==
    /\ pc = "unreachable"
    /\ cfg.log_file # "missing"
    /\ LET r == num_reboots_24h(HistoryFile, now)
       IN  /\ reboots' = r.count
           /\ IF Throttled(r.count, cfg.max_reboots_per_day)
              THEN /\ log' = fatal(log, now, MsgCanceled)
                   /\ ev' = ev \o << EvScan(r.count), EvCanceled >>
              ELSE /\ log' = log
                   /\ ev' = Append(ev, EvScan(r.count))
           /\ pc' = "notify"
    /\ UNCHANGED <<cfg, log0, now, count, rebootLog, cycle>>

CheckThreshold ==
    /\ pc = "unreachable"
    /\ IF cfg.log_file = "missing"
       THEN \* open() raises FileNotFoundError, which nothing catches
            /\ pc' = "crash"
            /\ UNCHANGED <<log, reboots, ev>>
       ELSE \E r \in {num_reboots_24h(HistoryFile, now)} :
                IF r.raised
                THEN /\ pc' = "crash"
                     /\ UNCHANGED <<log, reboots, ev>>
                ELSE /\ reboots' = r.count
                     /\ IF Throttled(r.count, cfg.max_reboots_per_day)
                        THEN /\ log' = fatal(log, now, MsgCanceled)
                             /\ ev' = ev \o << EvScan(r.count), EvCanceled >>
                             /\ pc' = "done"
                        ELSE /\ log' = log
                             /\ ev' = Append(ev, EvScan(r.count))
                             /\ pc' = "notify"
    /\ UNCHANGED <<cfg, log0, now, count, rebootLog, cycle>>

\* MyLog.notify, line 328: the marker line, then logger(1) unless on Windows
NotifyEvents_SyslogFirst ==
    IF cfg.os_name # "nt" THEN << EvSyslog, EvMarker >> ELSE << EvMarker >>

NotifyEvents == IF cfg.os_name # "nt" THEN << EvMarker, EvSyslog >> ELSE << EvMarker >>

Notify_Twice ==
    /\ pc = "notify"
    /\ log' = fatal(fatal(log, now, log_msg), now, log_msg)
    /\ ev' = ev \o NotifyEvents
    /\ pc' = "push"
    /\ UNCHANGED <<cfg, log0, now, count, reboots, rebootLog, cycle>>

Notify ==
    /\ pc = "notify"
    /\ log' = fatal(log, now, log_msg)
    /\ ev' = ev \o NotifyEvents
    /\ pc' = "push"
    /\ UNCHANGED <<cfg, log0, now, count, reboots, rebootLog, cycle>>

\* Pushover.notify, lines 330-332: the keys the configuration holds are too
\* short, or the request fails, or the answer is not 200, or it is sent; every
\* outcome returns to the caller
PushOutcomes == {PushNotConfigured, PushError, PushNon200, PushSent}

Push_Raises ==
    /\ pc = "push"
    /\ \E o \in PushOutcomes :
         /\ ev' = Append(ev, EvPush(o))
         /\ pc' = IF o \in {PushError, PushNon200} THEN "crash" ELSE "reboot"
    /\ UNCHANGED <<cfg, log0, log, now, count, reboots, rebootLog, cycle>>

Push ==
    /\ pc = "push"
    /\ \E o \in PushOutcomes :
         ev' = Append(ev, EvPush(o))
    /\ pc' = "reboot"
    /\ UNCHANGED <<cfg, log0, log, now, count, reboots, rebootLog, cycle>>

\* send_reboot_cmd and lines 334-335
Reboot_ExitOnFail ==
    /\ pc = "reboot"
    /\ \E result \in {0, 1} :
         /\ rebootLog' = Append(rebootLog, now)
         /\ IF result # 0
            THEN /\ log' = fatal(log, now, MsgFailed)
                 /\ ev' = ev \o << EvReboot(result), EvFailed >>
                 /\ pc' = "exit1"
            ELSE /\ log' = log
                 /\ ev' = Append(ev, EvReboot(result))
                 /\ pc' = "done"
    /\ UNCHANGED <<cfg, log0, now, count, reboots, cycle>>

Reboot ==
    /\ pc = "reboot"
    /\ \E result \in {0, 1} :
         /\ rebootLog' = Append(rebootLog, now)
         /\ IF result # 0
            THEN /\ log' = fatal(log, now, MsgFailed)
                 /\ ev' = ev \o << EvReboot(result), EvFailed >>
            ELSE /\ log' = log
                 /\ ev' = Append(ev, EvReboot(result))
    /\ pc' = "done"
    /\ UNCHANGED <<cfg, log0, now, count, reboots, cycle>>

\* the process has ended and its locals are gone; the scheduler starts the
\* next one later
Exit ==
    /\ pc \in {"done", "exit1", "crash"}
    /\ \E d \in Gaps : now' = now + d
    /\ pc' = "idle"
    /\ ev' = <<>>
    /\ count' = 0
    /\ reboots' = 0
    /\ log0' = log
    /\ UNCHANGED <<cfg, log, rebootLog, cycle>>

Next ==
    \/ Start
    \/ PingRound
    \/ PingGiveUp
    \/ StandDown
    \/ CheckThreshold
    \/ Notify
    \/ Push
    \/ Reboot
    \/ Exit

Spec == Init /\ [][Next]_vars

\* the steps of a running invocation: every probe, sleep, file read, push
\* request and command returns, so a step that can be taken is taken; when
\* the scheduler starts the next invocation is left open
Run ==
    \/ PingRound
    \/ PingGiveUp
    \/ StandDown
    \/ CheckThreshold
    \/ Notify
    \/ Push
    \/ Reboot

SpecLive == Spec /\ WF_vars(Run)

----------------------------------------------------------------------------
(* The history scan on its own: num_reboots_24h applied to a log file of up *)
(* to MaxLines lines, the program's own and foreign ones, read at clock now *)

JUNK == Tok("junk", 0)

\* the ages, at clock timedelta_hours(48), of the dates the lines carry
ScanAges ==
    { timedelta_hours(1), timedelta_hours(23),
      timedelta_hours(24) - TicksPerSec, timedelta_hours(24) - 1,
      timedelta_hours(24), timedelta_hours(25) }

Date(t) == Tok("date", t \div TicksPerSec)
Ms(t) == Tok("ms", t % TicksPerSec)

\* lines that are not the marker line of the program
OddLines(t) ==
    { FormatLine(t, MsgNoReboot),
      FormatLine(t, MsgCanceled),
      FormatLine(t, MsgFailed),
      << Date(t), COMMA, Ms(t), SP, log_msg, NL >>,                      \* no '|'
      << Date(t), COMMA, Ms(t), SP, BAR, SP, log_msg, SP, BAR, JUNK, NL >>,
      << Date(t), COMMA, Ms(t), SP, BAR, SP, BAR, SP, MsgNoReboot, NL >>,
      << JUNK, SP, BAR, SP, log_msg, NL >>,                              \* no date
      << Date(t), SP, BAR, SP, log_msg, NL >>,           \* date, then a space
      << SP, Date(t), COMMA, Ms(t), SP, BAR, SP, log_msg, NL >>,
      << Date(t), DOT, Ms(t), SP, BAR, SP, log_msg, NL >>,
      << Date(t), BAR, log_msg, NL >>,
      << Date(t), COMMA, Ms(t), SP, BAR, SP, JUNK, log_msg, JUNK, NL >>,
      << NL >> }

ScanInputLines ==
    { FormatLine(timedelta_hours(48) - a, log_msg) : a \in ScanAges }
        \cup OddLines(timedelta_hours(48) - timedelta_hours(1))

ScanInit ==
    /\ cfg = [attempts |-> 1, retries |-> 0, max_reboots_per_day |-> 0,
              log_file |-> "logger", os_name |-> "posix", ping_tool |-> TRUE]
    /\ log = <<>>
    /\ log0 = <<>>
    /\ now \in {timedelta_hours(48), timedelta_hours(48) + 1}
    /\ pc = "scan:input"
    /\ count = 0
    /\ reboots = 0
    /\ ev = <<>>
    /\ rebootLog = <<>>
    /\ cycle = 0

\* one more line is in the file
ScanAddLine ==
    /\ pc = "scan:input"
    /\ Len(log) < MaxLines
    /\ \E line \in ScanInputLines : log' = Append(log, line)
    /\ UNCHANGED <<cfg, log0, now, pc, count, reboots, ev, rebootLog, cycle>>

\* reboots = num_reboots_24h(cfg)
ScanCall ==
    /\ pc = "scan:input"
    /\ LET r == num_reboots_24h(log, now)
       IN  /\ reboots' = r.count
           /\ pc' = IF r.raised THEN "scan:raised" ELSE "scan:returned"
    /\ UNCHANGED <<cfg, log, log0, now, count, ev, rebootLog, cycle>>

ScanNext == ScanAddLine \/ ScanCall

SpecScan == ScanInit /\ [][ScanNext]_vars

----------------------------------------------------------------------------
(* One probe round on its own: ping_attempts followed probe by probe.  ev   *)
(* holds the status of each probe run so far, count is failed_attempts.     *)

\* what os.system returns for one ping: 0 for a reply, non-zero otherwise
ProbeStatuses == {0, 1, 2}

EvProbe(result) == Ev("probe", result)

ProbeInit ==
    /\ cfg \in [ attempts : 1 .. MaxProbeAttempts, retries : {1},
                  max_reboots_per_day : {0}, log_file : {"logger"},
                  os_name : {"posix"}, ping_tool : BOOLEAN ]
    /\ log = <<>>
    /\ log0 = <<>>
    /\ now = timedelta_hours(48)
    /\ pc = "probe:called"
    /\ count = 0
    /\ reboots = 0
    /\ ev = <<>>
    /\ rebootLog = <<>>
    /\ cycle = 0

\* lines 240-250: the is_tool test, then failed_attempts = 0
ProbeEnter ==
    /\ pc = "probe:called"
    /\ IF ~cfg.ping_tool
       THEN /\ log' = fatal(log, now, MsgNoPing)
            /\ pc' = "probe:exit1"
       ELSE /\ log' = log
            /\ pc' = "probe:loop"
    /\ count' = 0
    /\ UNCHANGED <<cfg, log0, now, reboots, ev, rebootLog, cycle>>

\* lines 251-256: one turn of the for loop
ProbeStep_BreakOnFail ==
    /\ pc = "probe:loop"
    /\ Len(ev) < 2 * cfg.attempts
    /\ \E result \in ProbeStatuses :
         /\ ev' = Append(ev, EvProbe(result))
         /\ count' = IF result # 0 THEN count + 1 ELSE count
         /\ pc' = IF result # 0 THEN "probe:returned" ELSE "probe:loop"
    /\ UNCHANGED <<cfg, log, log0, now, reboots, rebootLog, cycle>>

ProbeStep ==
    /\ pc = "probe:loop"
    /\ Len(ev) < 2 * cfg.attempts
    /\ \E result \in ProbeStatuses :
         /\ ev' = Append(ev, EvProbe(result))
         /\ count' = IF result # 0 THEN count + 1 ELSE count
    /\ UNCHANGED <<cfg, log, log0, now, pc, reboots, rebootLog, cycle>>

\* line 258: return failed_attempts
ProbeReturn ==
    /\ pc = "probe:loop"
    /\ Len(ev) = 2 * cfg.attempts
    /\ pc' = "probe:returned"
    /\ UNCHANGED <<cfg, log, log0, now, count, reboots, ev, rebootLog, cycle>>

ProbeNext == ProbeEnter \/ ProbeStep \/ ProbeReturn

SpecProbe == ProbeInit /\ [][ProbeNext]_vars

----------------------------------------------------------------------------
(* Vocabulary of the properties *)

\* the logger's file after this invocation's rotation step
Rotated == log_rotate(log0, LogMaxSize)

\* this invocation has appended exactly these lines to the logger's file
GrewBy(lines) == log = Rotated \o lines

\* the count the history scan of this invocation returned
ScanCount == ev[CHOOSE i \in Indices("scan") : TRUE].n

\* round i of this invocation found the host reachable
GoodRound(i) == ev[i].e = "round" /\ ev[i].n <= cfg.attempts

SomeGoodRound == \E i \in DOMAIN ev : GoodRound(i)

NoAction ==
    /\ Num("marker") = 0
    /\ Num("syslog") = 0
    /\ Num("push") = 0
    /\ Num("reboot") = 0

\* the number of '|' in a line
Bars(line) == Cardinality({i \in DOMAIN line : line[i] = BAR})

BarAt(line) == CHOOSE i \in DOMAIN line : line[i] = BAR

\* the message field of a line with one '|' holds the marker text
MarkerAfterBar(line) ==
    \E j \in DOMAIN line : j > BarAt(line) /\ line[j] = log_msg

\* the timestamp field of a line with one '|', up to its first ',' or '.',
\* is a date to the second and nothing else
DateBeforeBar(line) ==
    /\ line[1].k = "date"
    /\ BarAt(line) > 1
    /\ \/ BarAt(line) = 2
       \/ line[2] \in {COMMA, DOT}

\* a line that records a reboot request, and the time it parses to
IsRebootEvent(line) ==
    Bars(line) = 1 /\ MarkerAfterBar(line) /\ DateBeforeBar(line)

EventTime(line) == line[1].n * TicksPerSec

\* the lines the scan must pass over: no delimiter, more than one, a marker
\* line whose timestamp does not parse, a message other than the marker
Passed(line) ==
    \/ Bars(line) = 0
    \/ Bars(line) > 1
    \/ Bars(line) = 1 /\ MarkerAfterBar(line) /\ ~DateBeforeBar(line)
    \/ Bars(line) = 1 /\ ~MarkerAfterBar(line)

NotPassed(line) == ~Passed(line)

RECURSIVE Reverse(_)
Reverse(s) == IF s = <<>> THEN <<>> ELSE Append(Reverse(Tail(s)), s[1])

----------------------------------------------------------------------------
(* The properties *)

\* C1: in a cycle where the host was judged unreachable and the history scan
\* returned a count >= max_reboots_per_day, the cycle ends at once as
\* ThrottledAbort: no marker line, no system logger call, no push notification
\* and no reboot command; the only line logged is 'reboot canceled'.
C1_ThrottledAbort ==
    (Has("scan") /\ ScanCount >= cfg.max_reboots_per_day) =>
        /\ pc = "done"
        /\ NoAction
        /\ Num("reboot canceled") = 1
        /\ GrewBy(<< FormatLine(now, MsgCanceled) >>)

C1_Witness ==
    /\ pc = "done"
    /\ Has("scan")
    /\ cfg.max_reboots_per_day >= 1
    /\ ScanCount >= cfg.max_reboots_per_day
    /\ Has("round")

\* C2 (as claimed): over sequential cycles, each starting with the rotation
\* step, the reboot commands issued within any trailing 24 hours never exceed
\* max_reboots_per_day.  Stated for the configuration main() writes itself,
\* whose log_file is the logger's own file.
C2_CapPerWindow ==
    cfg.log_file = "logger" =>
        \A i \in DOMAIN rebootLog :
            Cardinality({ j \in 1 .. i :
                rebootLog[j] > rebootLog[i] - timedelta_hours(24) })
                <= cfg.max_reboots_per_day

\* C3 (as claimed): ping_host returns False only after exactly retries + 1
\* rounds, each with failures > attempts.
C3_RetriesPlusOneRounds ==
    pc = "unreachable" =>
        /\ Num("round") = cfg.retries + 1
        /\ \A i \in Indices("round") : ev[i].n > cfg.attempts

\* C4: ping_host returns True at round k exactly when round k is the first
\* round with failures <= attempts; after such a round no further round and
\* no further wait is started; with no failure in round 1 one round is run and
\* the cycle ends in StandDown.
C4_ShortCircuit ==
    /\ pc = "reachable" =>
          /\ GoodRound(Len(ev))
          /\ \A i \in 1 .. Len(ev) - 1 : ~GoodRound(i)
    /\ \A i \in DOMAIN ev :
          GoodRound(i) =>
              /\ pc \in {"reachable", "done"}
              /\ \A j \in DOMAIN ev : j > i => ev[j].e \notin {"round", "wait"}
    /\ (pc = "done" /\ \E i \in DOMAIN ev :
                          ev[i] = EvRound(0) /\ \A j \in 1 .. i - 1 : ev[j].e # "round") =>
          /\ Num("round") = 1
          /\ ev[Len(ev)] = EvNoReboot
          /\ ~Has("scan")

C4_Witness ==
    /\ pc = "done"
    /\ cfg.retries = MaxRetries
    /\ ev = << EvRotate, EvRound(0), EvNoReboot >>

\* C5: in a cycle where the host was judged unreachable and the history count
\* is < max_reboots_per_day, the marker line is logged once and the reboot
\* command is run once; whatever the outcome of the push notification, the
\* cycle goes on to the reboot command.
C5_NotifyAndReboot ==
    /\ (Has("scan") /\ ScanCount < cfg.max_reboots_per_day) =>
          /\ pc \in {"notify", "push", "reboot", "done"}
          /\ pc = "done" =>
                /\ Num("marker") = 1
                /\ Num("syslog") = (IF cfg.os_name = "nt" THEN 0 ELSE 1)
                /\ Num("push") = 1
                /\ Num("reboot") = 1
    /\ Has("push") => pc \in {"reboot", "done"}

C5_Witness ==
    /\ pc = "done"
    /\ Has("scan")
    /\ ScanCount = cfg.max_reboots_per_day - 1
    /\ \E i \in DOMAIN ev : ev[i] = EvPush(PushError)
    /\ Num("reboot") = 1

\* C6: when ping_host reports the host reachable the cycle ends in StandDown:
\* the history is not scanned, no marker line is appended, nothing is pushed,
\* the reboot command is not run, and 'no reboot required' is the only line
\* logged.
C6_StandDown ==
    SomeGoodRound =>
        /\ pc \in {"reachable", "done"}
        /\ ~Has("scan")
        /\ NoAction
        /\ pc = "reachable" => GrewBy(<<>>)
        /\ pc = "done" => GrewBy(<< FormatLine(now, MsgNoReboot) >>)

C6_Witness ==
    /\ pc = "done"
    /\ SomeGoodRound
    /\ \E i \in DOMAIN log0 : IsRebootEvent(log0[i])
    /\ Rotated = log0

\* C7: a cycle that completes has exactly one of the outcomes StandDown,
\* ThrottledAbort, NotifyAndReboot, and they are decided in order: the history
\* is scanned only after every round and only when none found the host
\* reachable, and the marker is logged only after a scan below the cap.
C7_OneOutcome ==
    /\ LET outcomes == { k \in {"no reboot required", "reboot canceled", "marker"} :
                            Has(k) }
       IN  /\ Cardinality(outcomes) <= 1
           /\ pc = "done" => Cardinality(outcomes) = 1
    /\ Num("scan") <= 1
    /\ \A s \in Indices("scan") :
          /\ ~SomeGoodRound
          /\ \A i \in Indices("round") : i < s
    /\ Has("no reboot required") => SomeGoodRound
    /\ Has("reboot canceled") =>
          Has("scan") /\ ScanCount >= cfg.max_reboots_per_day
    /\ \A m \in Indices("marker") \cup Indices("reboot") :
          \E s \in Indices("scan") :
              s < m /\ ev[s].n < cfg.max_reboots_per_day

C7_Witness ==
    /\ pc = "done"
    /\ Has("reboot command failed")
    /\ Num("round") = MaxRetries

\* C8: num_reboots_24h returns the number of lines that carry the marker
\* message and whose parsed timestamp is strictly later than now - 24h,
\* whatever the order of the lines; a line stamped exactly 24h ago or earlier
\* is not counted.
C8_CountInWindow ==
    pc = "scan:returned" =>
        /\ reboots = Cardinality({ i \in DOMAIN log :
                         /\ IsRebootEvent(log[i])
                         /\ EventTime(log[i]) > now - timedelta_hours(24) })
        /\ reboots = num_reboots_24h(Reverse(log), now).count
        /\ \A i \in DOMAIN log :
              (IsRebootEvent(log[i])
                 /\ EventTime(log[i]) <= now - timedelta_hours(24)) =>
                  reboots = num_reboots_24h(
                      SubSeq(log, 1, i - 1) \o SubSeq(log, i + 1, Len(log)), now).count

C8_Witness ==
    /\ pc = "scan:returned"
    /\ now = timedelta_hours(48)
    /\ log = << FormatLine(now - timedelta_hours(1), log_msg),
                FormatLine(now - timedelta_hours(23), log_msg),
                FormatLine(now - timedelta_hours(25), log_msg) >>
    /\ reboots = 2

\* C9: num_reboots_24h does not raise on the lines of the log: a line with no
\* '|', with more than one, a marker line whose timestamp does not parse, and
\* a line with another message each count for nothing, and the other lines
\* are counted as if those were not there.
C9_SkipsWithoutRaising ==
    /\ pc # "scan:raised"
    /\ pc = "scan:returned" =>
          /\ reboots = num_reboots_24h(SelectSeq(log, NotPassed), now).count
          /\ \A i \in DOMAIN log :
                Passed(log[i]) =>
                    num_reboots_24h(<< log[i] >>, now) = [raised |-> FALSE, count |-> 0]

C9_Witness ==
    /\ pc = "scan:returned"
    /\ Len(log) = 3
    /\ Bars(log[1]) = 0
    /\ log[2] = FormatLine(timedelta_hours(47), log_msg)
    /\ log[3] = << JUNK, SP, BAR, SP, log_msg, NL >>
    /\ reboots = 1

\* C10: within one cycle the history scan is over before the marker line is
\* appended: the count the throttle uses is the count of the file as rotation
\* left it, without the marker of this cycle.
C10_ScanBeforeAppend ==
    /\ \A m \in Indices("marker") : \E s \in Indices("scan") : s < m
    /\ Has("scan") =>
          /\ reboots = ScanCount
          /\ reboots = num_reboots_24h(
                 IF cfg.log_file = "logger" THEN Rotated ELSE <<>>, now).count

C10_Witness ==
    /\ pc = "done"
    /\ cfg.log_file = "logger"
    /\ Has("marker")
    /\ reboots = 1
    /\ num_reboots_24h(log, now).count = 2

\* the lines of a log that carry the marker text
MarkerLines(lines) ==
    {i \in DOMAIN lines : \E j \in DOMAIN lines[i] : lines[i][j] = log_msg}

IsPrefix(a, b) == Len(a) <= Len(b) /\ SubSeq(b, 1, Len(a)) = a

\* C11: the number of marker lines in the log grows by exactly one in a cycle
\* that ends in NotifyAndReboot, whether the reboot command succeeds or fails,
\* and by zero in a cycle that ends in StandDown or ThrottledAbort; after the
\* rotation at the start of the cycle the lines already in the log are neither
\* removed nor altered.
C11_MarkerFrame ==
    /\ IsPrefix(Rotated, log)
    /\ (pc = "done" /\ Has("reboot")) =>
          Cardinality(MarkerLines(log)) = Cardinality(MarkerLines(Rotated)) + 1
    /\ (pc = "done" /\ (Has("no reboot required") \/ Has("reboot canceled"))) =>
          Cardinality(MarkerLines(log)) = Cardinality(MarkerLines(Rotated))

C11_Witness ==
    /\ pc = "done"
    /\ Has("reboot command failed")
    /\ Cardinality(MarkerLines(Rotated)) = 1
    /\ Cardinality(MarkerLines(log)) = 2

\* C12 (as claimed): when the ping tool is not available the process ends with
\* exit code 1 before any decision, for every configuration, retries = 0
\* included: no probe round is judged, nothing is notified and the reboot
\* command is never run.
C12_AbortWithoutPing ==
    (~cfg.ping_tool /\ pc \notin {"idle", "ping"}) =>
        /\ pc = "exit1"
        /\ Num("round") = 0
        /\ NoAction

\* the exit code of a process that has ended: main returning is 0,
\* sys.exit(1) and an uncaught exception are 1
ExitCode == IF pc = "done" THEN 0 ELSE 1

Ended == pc \in {"done", "exit1", "crash"}

\* C13: when the reboot command reports failure the cycle logs 'reboot command
\* failed' and stops: the command was run once and is not run again, nothing
\* is notified again, and the process ends normally with exit code 0, as it
\* does after StandDown and ThrottledAbort.
C13_RebootFailure ==
    /\ (\E i \in Indices("reboot") : ev[i].n # 0) =>
          /\ pc = "done"
          /\ ExitCode = 0
          /\ Num("reboot") = 1
          /\ Num("marker") = 1
          /\ Num("push") = 1
          /\ Num("syslog") <= 1
          /\ Num("reboot command failed") = 1
          /\ ev[Len(ev)] = EvFailed
          /\ ev[Len(ev) - 1].e = "reboot"
          /\ log[Len(log)] = FormatLine(now, MsgFailed)
    /\ Has("reboot command failed") => \E i \in Indices("reboot") : ev[i].n # 0
    /\ (Ended /\ (Has("no reboot required") \/ Has("reboot canceled"))) =>
          ExitCode = 0

C13_Witness ==
    /\ pc = "done"
    /\ \E i \in Indices("reboot") : ev[i].n # 0
    /\ Has("reboot command failed")
    /\ Has("syslog")

\* event i of this invocation is a round, and a later round was run
RoundBeforeAnother(i) ==
    /\ ev[i].e = "round"
    /\ \E k \in i + 1 .. Len(ev) : ev[k].e = "round"

\* C14: ping_host waits between consecutive rounds and nowhere else: every
\* wait comes right after a round and right before the next one, consecutive
\* rounds have exactly one wait between them, so no wait precedes the first
\* round or follows the last, and the number of waits is the number of rounds
\* run minus one (none when one round ran).
C14_WaitsBetweenRounds ==
    /\ \A w \in Indices("wait") :
          /\ w > 1
          /\ w < Len(ev)
          /\ ev[w - 1].e = "round"
          /\ ev[w + 1].e = "round"
    /\ \A i \in DOMAIN ev :
          RoundBeforeAnother(i) => (ev[i + 1] = EvWait /\ ev[i + 2].e = "round")
    /\ Num("wait") = IF Has("round") THEN Num("round") - 1 ELSE 0

C14_Witness ==
    /\ pc = "reachable"
    /\ Num("round") = 2
    /\ Num("wait") = 1
    /\ ev[Len(ev)] = EvRound(0)

\* every event of kind b in this invocation has an event of kind a before it
Before(a, b) == \A j \in Indices(b) : \E i \in Indices(a) : i < j

\* this invocation has appended the marker line to the log
MarkerAppended ==
    \E k \in DOMAIN log :
        k > Len(Rotated) /\ log[k] = FormatLine(now, log_msg)

\* C15: in a NotifyAndReboot cycle the effects come in a fixed order: the
\* marker line is appended to the log, then the system logger is called, then
\* the push notification is sent, then the reboot command is run; the reboot
\* command is never run before the marker line is in the log.
C15_NotifyOrder ==
    /\ Before("marker", "syslog")
    /\ Before("marker", "push")
    /\ cfg.os_name # "nt" => Before("syslog", "push")
    /\ Before("push", "reboot")
    /\ Before("marker", "reboot")
    /\ Has("marker") => MarkerAppended
    /\ Has("reboot") => MarkerAppended
    /\ pc = "reboot" => (MarkerAppended /\ ~Has("reboot"))

C15_Witness ==
    /\ pc = "done"
    /\ Len(ev) >= 4
    /\ SubSeq(ev, Len(ev) - 3, Len(ev)) =
           << EvMarker, EvSyslog, EvPush(PushSent), EvReboot(0) >>
    /\ MarkerAppended

\* the statuses of the probes run so far in the round followed on its own
ProbeResults == [i \in 1 .. Len(ev) |-> ev[i].n]

NonZero == {i \in DOMAIN ev : ev[i].n # 0}

\* C16: a probe round runs exactly 2 x attempts probes whatever their results
\* and returns the number f of probes whose status was non-zero, so
\* 0 <= f <= 2 x attempts; a failed probe neither ends the batch early nor
\* raises.
C16_ProbeRound ==
    /\ pc = "probe:returned" =>
          /\ Len(ev) = 2 * cfg.attempts
          /\ count = Cardinality(NonZero)
          /\ count = ping_attempts(ProbeResults)
          /\ 0 <= count /\ count <= 2 * cfg.attempts
    /\ pc = "probe:loop" =>
          /\ Len(ev) <= 2 * cfg.attempts
          /\ count = Cardinality(NonZero)
    /\ pc = "probe:exit1" => (~cfg.ping_tool /\ ev = <<>>)
    /\ cfg.ping_tool => pc \in {"probe:called", "probe:loop", "probe:returned"}

C16_Witness ==
    /\ pc = "probe:returned"
    /\ cfg.attempts = 2
    /\ ProbeResults = << 1, 0, 2, 1 >>
    /\ count = 3

AllRoundsFailed ==
    \A i \in Indices("round") : ev[i].n > cfg.attempts

\* C17 (as claimed): the reboot command is run, and the marker notified, only
\* in a cycle where at least one probe round was run and every round run had
\* more than attempts failures; for no configuration, retries = 0 included,
\* is a reboot issued without a probe having been sent.  (Stated for machines
\* that have the ping tool.)
C17_RebootOnlyAfterProbes ==
    (cfg.ping_tool /\ (Has("reboot") \/ Has("marker"))) =>
        /\ Num("round") >= 1
        /\ AllRoundsFailed

\* a marker line as the program writes it, and the clock it was written at
OwnMarker(line) ==
    /\ Len(line) = 8
    /\ line[1].k = "date"
    /\ line[3].k = "ms"
    /\ line = FormatLine(line[1].n * TicksPerSec + line[3].n, log_msg)

AppendTime(line) == line[1].n * TicksPerSec + line[3].n

\* the markers earlier invocations appended less than 24 hours ago, in the
\* logger's file as this invocation found it
RecentMarkers ==
    {i \in DOMAIN log0 :
        OwnMarker(log0[i]) /\ now - AppendTime(log0[i]) < timedelta_hours(24)}

\* C18 (as claimed): the history scan reads the file the notification step
\* appends to, whatever the configuration file holds: when rotation has left
\* the log alone, every marker appended by an earlier cycle less than 24 hours
\* ago is counted by the scan of this cycle, also when the configured
\* log_file is not the logger's default path.
C18_ScanReadsLoggerFile ==
    (Has("scan") /\ Rotated = log0) =>
        ScanCount >= Cardinality(RecentMarkers)

\* an invocation is under way
InCycle == pc \notin {"idle", "scan:input", "scan:returned", "scan:raised"}

\* what the claim says rotation leaves of the log found at the start
AfterRotation ==
    IF LogMaxSize > 0 /\ getsize(log0) > LogMaxSize THEN <<>> ELSE log0

\* C19: rotation runs once per cycle, before the probes and before the
\* history scan; it empties the log if and only if rotation is enabled
\* (threshold > 0) and the size of the log is strictly greater than
\* log_max_size, and otherwise leaves the content of the log as it was.
C19_RotationFrame ==
    /\ InCycle =>
          /\ Num("rotate") = 1
          /\ ev[1] = EvRotate
    /\ ev = << EvRotate >> =>
          /\ log = AfterRotation
          /\ log_rotate(log0, 0) = log0

C19_Witness ==
    /\ pc = "ping"
    /\ ev = << EvRotate >>
    /\ getsize(log0) > LogMaxSize
    /\ log0 # <<>>
    /\ log = <<>>

\* ping_host has returned, or the process has ended
Decided == pc \in {"reachable", "unreachable", "notify", "push", "reboot",
                   "done", "exit1", "crash"}

\* nothing the invocation calls raises: the ping tool is installed and the
\* file the history scan opens exists
CallsReturn == cfg.ping_tool /\ cfg.log_file # "missing"

\* C20: with every probe, sleep and collaborator call returning, an
\* invocation runs one decision cycle and ends: it reaches the end of the
\* process, and where the ping tool and the history file are there it reaches
\* one of the three outcomes; it runs at most retries + 1 rounds, and once
\* ping_host has returned it never goes back to probing.
C20_Terminates ==
    /\ InCycle ~> (Ended /\ (CallsReturn => pc = "done"))
    /\ [](Num("round") <= cfg.retries + 1)
    /\ [][Decided => (pc' # "ping" /\ (pc' # "idle" => Num("round")' = Num("round")))]_vars

C20_Witness ==
    /\ pc = "done"
    /\ cfg.retries = MaxRetries
    /\ Num("round") = cfg.retries
    /\ Has("reboot canceled")
    /\ cycle = MaxCycles

====
